---- MODULE Spec2Model ----
(***************************************************************************)
(* Model of packages/rule-handler/src/rule.ts: the filter parser           *)
(* (parseSearchFilter), the predicate (isValidData, isValidSubscription)   *)
(* and the dispatcher loop (triggerActions).                               *)
(*                                                                         *)
(* A string is a sequence of one-character strings.  An optional string    *)
(* (a field declared with `?`) is a record [some, v].                      *)
(***************************************************************************)
EXTENDS Integers, Sequences, FiniteSets, TLC

(***************************************************************************)
(* Strings and optional values                                             *)
(***************************************************************************)
None == [some |-> FALSE, v |-> <<>>]

Some(s) == [some |-> TRUE, v |-> s]

\* JavaScript truthiness of an optional string: defined and not ''.
Truthy(o) == o.some /\ o.v # <<>>

KEYWORD == <<"s", "u", "b", "s", "c", "r", "i", "p", "t", "i", "o", "n">>

STAR == <<"*">>

\* \w of the regular expressions, on the alphabet of the model.
WordChars == {"s", "u", "b", "c", "r", "i", "p", "t", "o", "n", "d", "N", "x", "1"}

IsWord(c) == c \in WordChars

\* \s of the regular expressions, on the alphabet of the model.
IsSpace(c) == c = " "

QUOTE == "\""

COLON == ":"

DASH == "-"

RECURSIVE Flatten(_)
Flatten(ss) == IF ss = <<>> THEN <<>> ELSE Head(ss) \o Flatten(Tail(ss))

Drop(s, n) == SubSeq(s, n + 1, Len(s))

IndexOf(s, c) ==
  IF \E i \in 1..Len(s) : s[i] = c
  THEN CHOOSE i \in 1..Len(s) : s[i] = c /\ \A j \in 1..(i - 1) : s[j] # c
  ELSE 0

(***************************************************************************)
(* filter.replace(/\W\s":/g, ''): every non-overlapping occurrence, left   *)
(* to right, of the four characters  non-word, whitespace, quote, colon    *)
(* is removed in a single pass.                                            *)
(***************************************************************************)
MatchesStripAt(s) ==
  /\ Len(s) >= 4
  /\ ~IsWord(s[1])
  /\ IsSpace(s[2])
  /\ s[3] = QUOTE
  /\ s[4] = COLON

RECURSIVE ReplaceStrip(_)
ReplaceStrip(s) ==
  IF s = <<>> THEN <<>>
  ELSE IF MatchesStripAt(s) THEN ReplaceStrip(Drop(s, 4))
  ELSE <<Head(s)>> \o ReplaceStrip(Tail(s))

(***************************************************************************)
(* parse(searchFilter, {keywords: ['subscription'], tokenize: true}) of    *)
(* search-query-parser.  The term regular expression is                    *)
(*   (\S+:'..')|(\S+:"..")|(-?"..")|(-?'..')|\S+|\S+:\S+                   *)
(* The alphabet of the model has neither the single quote nor the          *)
(* backslash, so the single-quote alternatives and the escape handling     *)
(* have nothing to act on.                                                 *)
(***************************************************************************)
\* Length of the maximal run of non-whitespace characters at the head of s.
RECURSIVE RunLen(_)
RunLen(s) == IF s = <<>> \/ IsSpace(Head(s)) THEN 0 ELSE 1 + RunLen(Tail(s))

\* Position of the first quote of s after position p, 0 when there is none.
QuoteAfter(s, p) ==
  IF \E m \in (p + 1)..Len(s) : s[m] = QUOTE
  THEN CHOOSE m \in (p + 1)..Len(s) :
         s[m] = QUOTE /\ \A j \in (p + 1)..(m - 1) : s[j] # QUOTE
  ELSE 0

\* (\S+:"(?:[^"\\]|\\.)*"): the positions k of a colon ending a greedy \S+,
\* followed by an opening quote that has a closing quote.
KeyQuoteSplits(s) ==
  {k \in 2..RunLen(s) :
     /\ s[k] = COLON
     /\ k + 1 <= Len(s)
     /\ s[k + 1] = QUOTE
     /\ QuoteAfter(s, k + 1) # 0}

Max(S) == CHOOSE x \in S : \A y \in S : y <= x

\* Length of the term the regular expression matches at the head of s, s
\* starting with a non-whitespace character.
TermLen(s) ==
  IF KeyQuoteSplits(s) # {}
  THEN QuoteAfter(s, Max(KeyQuoteSplits(s)) + 1)
  ELSE IF s[1] = QUOTE /\ QuoteAfter(s, 1) # 0
  THEN QuoteAfter(s, 1)
  ELSE IF Len(s) >= 2 /\ s[1] = DASH /\ s[2] = QUOTE /\ QuoteAfter(s, 2) # 0
  THEN QuoteAfter(s, 2)
  ELSE RunLen(s)

\* The successive matches of regex.exec over the string.
RECURSIVE Terms(_)
Terms(s) ==
  IF s = <<>> THEN <<>>
  ELSE IF IsSpace(Head(s)) THEN Terms(Tail(s))
  ELSE <<SubSeq(s, 1, TermLen(s))>> \o Terms(Drop(s, TermLen(s)))

\* val.replace(/^\"|\"$|^\'|\'$/g, ''): one leading and one trailing quote.
StripQuotes(v) ==
  LET a == IF v # <<>> /\ Head(v) = QUOTE THEN Tail(v) ELSE v
  IN  IF a # <<>> /\ a[Len(a)] = QUOTE THEN SubSeq(a, 1, Len(a) - 1) ELSE a

\* The offset parse() records for one term: a keyword offset {keyword, value}
\* when the text before the first colon is the keyword, possibly negated;
\* otherwise a text offset, or nothing for an excluded text term.
TermOffset(term) ==
  LET sep == IndexOf(term, COLON)
      key == SubSeq(term, 1, sep - 1)
      val == StripQuotes(Drop(term, sep))
  IN  IF sep # 0 /\ (key = KEYWORD \/ key = <<DASH>> \o KEYWORD)
      THEN [keyword |-> Some(KEYWORD), value |-> val]
      ELSE [keyword |-> None, value |-> <<>>]

\* parsed.offsets
parse(s) == [i \in 1..Len(Terms(s)) |-> TermOffset(Terms(s)[i])]

(***************************************************************************)
(* parseSearchFilter, isValidData, isValidSubscription                     *)
(***************************************************************************)
\* LastKeywordValue with the field written once: the first offset wins.
RECURSIVE LastKeywordValueFirst(_, _)
LastKeywordValueFirst(offsets, result) ==
  IF offsets = <<>> THEN result
  ELSE LastKeywordValueFirst(Tail(offsets),
         IF Head(offsets).keyword = Some(KEYWORD) /\ ~result.some
         THEN Some(Head(offsets).value) ELSE result)

\* The for loop over the keyword offsets: each one overwrites the field.
RECURSIVE LastKeywordValue(_, _)
LastKeywordValue(offsets, result) ==
  IF offsets = <<>> THEN result
  ELSE LastKeywordValue(Tail(offsets),
         IF Head(offsets).keyword = Some(KEYWORD)
         THEN Some(Head(offsets).value) ELSE result)

\* filter ? filter.replace(...) : undefined -- the empty string is falsy.
parseSearchFilter(filter) ==
  LET searchFilter == IF filter # <<>> THEN Some(ReplaceStrip(filter)) ELSE None
  IN  IF ~Truthy(searchFilter) \/ searchFilter.v = STAR
      THEN [subscriptionFilter |-> None]
      ELSE [subscriptionFilter |-> LastKeywordValue(parse(searchFilter.v), None)]

\* isValidSubscription without the guard on an absent subscription.
isValidSubscriptionUnguarded(subscriptionFilter, data) ==
  subscriptionFilter = STAR \/ data.subscription = Some(subscriptionFilter)

isValidSubscription(subscriptionFilter, data) ==
  IF ~Truthy(data.subscription) THEN FALSE
  ELSE subscriptionFilter = STAR \/ data.subscription.v = subscriptionFilter

\* isValidData without the test on the parsed field.
isValidDataUntested(filter, data) ==
  isValidSubscription(parseSearchFilter(filter).subscriptionFilter.v, data)

isValidData(filter, data) ==
  LET searchFilter == parseSearchFilter(filter)
  IN  IF Truthy(searchFilter.subscriptionFilter)
      THEN isValidSubscription(searchFilter.subscriptionFilter.v, data)
      ELSE TRUE

(***************************************************************************)
(* Inputs of triggerActions                                                *)
(***************************************************************************)
ADD_LABEL == "ADD_LABEL"

ARCHIVE == "ARCHIVE"

MARK_AS_READ == "MARK_AS_READ"

SEND_NOTIFICATION == "SEND_NOTIFICATION"

\* The rules come from a JSON response cast to Rule[]: a type outside the
\* enum can arrive.
OTHER_TYPE == "OTHER"

X == <<"x">>

HI == <<"h", "i">>

BYE == <<"b", "y", "e">>

P1 == <<"p", "1">>

NEWSLETTER == <<"n">>

DIGEST == <<"d">>

RuleAction(type, params) == [type |-> type, params |-> params]

ActionChoices ==
  { RuleAction(ADD_LABEL, <<>>), RuleAction(ADD_LABEL, <<X>>),
    RuleAction(ADD_LABEL, <<X, HI>>),
    RuleAction(ARCHIVE, <<>>), RuleAction(MARK_AS_READ, <<>>),
    RuleAction(SEND_NOTIFICATION, <<>>), RuleAction(SEND_NOTIFICATION, <<HI, BYE>>),
    RuleAction(OTHER_TYPE, <<>>) }

\* `*` and `subscription:d`
FilterChoices == {STAR, KEYWORD \o <<COLON>> \o DIGEST}

\* Rules plus actions of one input.
MaxSize == 4

ActionLists(n) == UNION {[1..k -> ActionChoices] : k \in 0..n}

Rule(filter, actions) == [filter |-> filter, actions |-> actions]

\* The rule lists of at most n rules and actions together.
RECURSIVE RuleLists(_)
RuleLists(n) ==
  {<<>>} \cup
  UNION { { <<Rule(f, as)>> \o rest : rest \in RuleLists(n - 1 - Len(as)) } :
            f \in FilterChoices, as \in ActionLists(n - 1) }

PubSubData(id, subscription) == [id |-> id, subscription |-> subscription]

DataChoices ==
  { PubSubData(id, sub) : id \in {None, Some(P1)}, sub \in {Some(NEWSLETTER)} }

(***************************************************************************)
(* triggerActions as a state machine.  Every `await` is two steps: the     *)
(* remote call is issued (logged in calls, outstanding in pending) and it  *)
(* returns, successfully or with a rejection.  Nothing in triggerActions   *)
(* catches a rejection, so it ends the run.                                *)
(***************************************************************************)
VARIABLES
  rules,      \* the rules argument
  data,       \* the data argument (the event)
  pc,         \* position in triggerActions
  ri,         \* index of the rule of the outer for loop
  ai,         \* index of the action of the inner for loop
  mi,         \* index of the message of the SendNotification loop
  authToken,  \* the authToken constant of the current rule
  issued,     \* number of tokens the issuer has handed out
  pending,    \* the remote call that is outstanding, if any
  calls,      \* every remote call issued so far, in order
  results,    \* the outcome of every remote call that has returned, in order
  filter,     \* argument of an isolated isValidData evaluation
  verdict,    \* its result
  auth,       \* the auth constant of getEnabledRules
  response    \* the response constant of getEnabledRules

vars == <<rules, data, pc, ri, ai, mi, authToken, issued, pending, calls,
          results, filter, verdict, auth, response>>

filterVars == <<filter, verdict>>

runVars == <<auth, response>>

NoResponse == [kind |-> "none"]

NoCall == [api |-> "none"]

\* A remote call, with the rule and action it is made for.
Call(api, token, id, labels, message) ==
  [api |-> api, token |-> token, id |-> id, labels |-> labels,
   message |-> message, rule |-> ri, action |-> ai]

Issue(c) ==
  /\ pending' = c
  /\ calls' = Append(calls, c)

Init ==
  /\ rules \in RuleLists(MaxSize)
  /\ data \in DataChoices
  /\ pc = "rules"
  /\ ri = 1
  /\ ai = 0
  /\ mi = 0
  /\ authToken = 0
  /\ issued = 0
  /\ pending = NoCall
  /\ calls = <<>>
  /\ results = <<>>
  /\ filter = <<>>
  /\ verdict = "none"
  /\ auth = 0
  /\ response = NoResponse

\* for (const rule of rules): the list is exhausted, triggerActions returns.
Return ==
  /\ pc = "rules"
  /\ ri > Len(rules)
  /\ pc' = "done"
  /\ UNCHANGED <<rules, data, ri, ai, mi, authToken, issued, pending, calls,
                 results, filterVars, runVars>>

\* SkipRule without the continue: the token is fetched for the rule all the same.
SkipRuleFetches ==
  /\ pc = "rules"
  /\ ri <= Len(rules)
  /\ ~isValidData(rules[ri].filter, data)
  /\ Issue([Call("getAuthToken", 0, None, <<>>, None) EXCEPT !.action = 0])
  /\ pc' = "awaitToken"
  /\ UNCHANGED <<rules, data, ri, ai, mi, authToken, issued, results, filterVars, runVars>>

\* if (!isValidData(rule.filter, data)) continue
SkipRule ==
  /\ pc = "rules"
  /\ ri <= Len(rules)
  /\ ~isValidData(rules[ri].filter, data)
  /\ ri' = ri + 1
  /\ UNCHANGED <<rules, data, pc, ai, mi, authToken, issued, pending, calls,
                 results, filterVars, runVars>>

\* GetAuthToken with the token kept from the rule before.
GetAuthTokenCached ==
  /\ pc = "rules"
  /\ ri <= Len(rules)
  /\ isValidData(rules[ri].filter, data)
  /\ IF authToken = 0
     THEN /\ Issue([Call("getAuthToken", 0, None, <<>>, None) EXCEPT !.action = 0])
          /\ pc' = "awaitToken"
          /\ UNCHANGED ai
     ELSE /\ ai' = 1
          /\ pc' = "actions"
          /\ UNCHANGED <<pending, calls>>
  /\ UNCHANGED <<rules, data, ri, mi, authToken, issued, results, filterVars,
                 runVars>>

\* const authToken = await getAuthToken(userId, jwtSecret): the call
GetAuthToken ==
  /\ pc = "rules"
  /\ ri <= Len(rules)
  /\ isValidData(rules[ri].filter, data)
  /\ Issue([Call("getAuthToken", 0, None, <<>>, None) EXCEPT !.action = 0])
  /\ pc' = "awaitToken"
  /\ UNCHANGED <<rules, data, ri, ai, mi, authToken, issued, results, filterVars, runVars>>

\* GetAuthTokenReturn with the rejection caught: the rule is given up, the
\* loop goes on.
GetAuthTokenReturnCaught ==
  /\ pc = "awaitToken"
  /\ \E ok \in BOOLEAN :
       /\ results' = Append(results, ok)
       /\ IF ok
          THEN /\ issued' = issued + 1
               /\ authToken' = issued + 1
               /\ ai' = 1
               /\ pc' = "actions"
               /\ UNCHANGED ri
          ELSE /\ pc' = "rules"
               /\ ri' = ri + 1
               /\ UNCHANGED <<issued, authToken, ai>>
  /\ pending' = NoCall
  /\ UNCHANGED <<rules, data, mi, calls, filterVars, runVars>>

\* GetAuthTokenReturn keeping the token of the first rule.
GetAuthTokenReturnKeepsFirst ==
  /\ pc = "awaitToken"
  /\ \E ok \in BOOLEAN :
       /\ results' = Append(results, ok)
       /\ IF ok
          THEN /\ issued' = issued + 1
               /\ authToken' = IF authToken = 0 THEN issued + 1 ELSE authToken
               /\ ai' = 1
               /\ pc' = "actions"
          ELSE /\ pc' = "failed"
               /\ UNCHANGED <<issued, authToken, ai>>
  /\ pending' = NoCall
  /\ UNCHANGED <<rules, data, ri, mi, calls, filterVars, runVars>>

\* ... and its return: a fresh token, or a rejection that leaves triggerActions
GetAuthTokenReturn ==
  /\ pc = "awaitToken"
  /\ \E ok \in BOOLEAN :
       /\ results' = Append(results, ok)
       /\ IF ok
          THEN /\ issued' = issued + 1
               /\ authToken' = issued + 1
               /\ ai' = 1
               /\ pc' = "actions"
          ELSE /\ pc' = "failed"
               /\ UNCHANGED <<issued, authToken, ai>>
  /\ pending' = NoCall
  /\ UNCHANGED <<rules, data, ri, mi, calls, filterVars, runVars>>

\* EndRule taking an empty actions list for an error.
EndRuleEmptyFails ==
  /\ pc = "actions"
  /\ ai > Len(rules[ri].actions)
  /\ IF rules[ri].actions = <<>>
     THEN pc' = "failed" /\ UNCHANGED ri
     ELSE pc' = "rules" /\ ri' = ri + 1
  /\ UNCHANGED <<rules, data, ai, mi, authToken, issued, pending, calls,
                 results, filterVars, runVars>>

\* for (const action of rule.actions): the list is exhausted, next rule.
EndRule ==
  /\ pc = "actions"
  /\ ai > Len(rules[ri].actions)
  /\ ri' = ri + 1
  /\ pc' = "rules"
  /\ UNCHANGED <<rules, data, ai, mi, authToken, issued, pending, calls,
                 results, filterVars, runVars>>

\* InvalidData with && for || in the AddLabel case.
InvalidDataBoth(action) ==
  \/ action.type = ADD_LABEL /\ (~Truthy(data.id) /\ Len(action.params) = 0)
  \/ action.type = ARCHIVE /\ ~Truthy(data.id)
  \/ action.type = MARK_AS_READ /\ ~Truthy(data.id)

\* The guards of the three cases that `continue` with a log line.
InvalidData(action) ==
  \/ action.type = ADD_LABEL /\ (~Truthy(data.id) \/ Len(action.params) = 0)
  \/ action.type = ARCHIVE /\ ~Truthy(data.id)
  \/ action.type = MARK_AS_READ /\ ~Truthy(data.id)

\* SkipAction with return for continue.
SkipActionReturns ==
  /\ pc = "actions"
  /\ ai <= Len(rules[ri].actions)
  /\ InvalidData(rules[ri].actions[ai])
  /\ pc' = "done"
  /\ UNCHANGED <<rules, data, ri, ai, mi, authToken, issued, pending, calls,
                 results, filterVars, runVars>>

\* console.log('invalid data for ...'); continue
SkipAction ==
  /\ pc = "actions"
  /\ ai <= Len(rules[ri].actions)
  /\ InvalidData(rules[ri].actions[ai])
  /\ ai' = ai + 1
  /\ UNCHANGED <<rules, data, pc, ri, mi, authToken, issued, pending, calls,
                 results, filterVars, runVars>>

\* The call of the AddLabel, Archive and MarkAsRead cases.
ActionCall(action) ==
  IF action.type = ADD_LABEL
  THEN Call("addLabels", authToken, data.id, action.params, None)
  ELSE IF action.type = ARCHIVE
  THEN Call("archivePage", authToken, data.id, <<>>, None)
  ELSE Call("markPageAsRead", authToken, data.id, <<>>, None)

\* await addLabels(...) / archivePage(...) / markPageAsRead(...): the call
Dispatch ==
  /\ pc = "actions"
  /\ ai <= Len(rules[ri].actions)
  /\ rules[ri].actions[ai].type \in {ADD_LABEL, ARCHIVE, MARK_AS_READ}
  /\ ~InvalidData(rules[ri].actions[ai])
  /\ Issue(ActionCall(rules[ri].actions[ai]))
  /\ pc' = "awaitAction"
  /\ UNCHANGED <<rules, data, ri, ai, mi, authToken, issued, results, filterVars, runVars>>

\* DispatchReturn with the rejection caught: the loop goes on.
DispatchReturnCaught ==
  /\ pc = "awaitAction"
  /\ \E ok \in BOOLEAN :
       /\ results' = Append(results, ok)
       /\ ai' = ai + 1
       /\ pc' = "actions"
  /\ pending' = NoCall
  /\ UNCHANGED <<rules, data, ri, mi, authToken, issued, calls, filterVars, runVars>>

\* DispatchReturn that calls again after a rejection.
DispatchReturnRetries ==
  /\ pc = "awaitAction"
  /\ \E ok \in BOOLEAN :
       /\ results' = Append(results, ok)
       /\ IF ok
          THEN ai' = ai + 1 /\ pc' = "actions"
          ELSE pc' = "actions" /\ UNCHANGED ai
  /\ pending' = NoCall
  /\ UNCHANGED <<rules, data, ri, mi, authToken, issued, calls, filterVars, runVars>>

\* ... and its return; break leaves the switch, the loop goes on.
DispatchReturn ==
  /\ pc = "awaitAction"
  /\ \E ok \in BOOLEAN :
       /\ results' = Append(results, ok)
       /\ IF ok
          THEN ai' = ai + 1 /\ pc' = "actions"
          ELSE pc' = "failed" /\ UNCHANGED ai
  /\ pending' = NoCall
  /\ UNCHANGED <<rules, data, ri, mi, authToken, issued, calls, filterVars, runVars>>

\* EnterNotify with the data.id guard of the other cases.
EnterNotifyGuarded ==
  /\ pc = "actions"
  /\ ai <= Len(rules[ri].actions)
  /\ rules[ri].actions[ai].type = SEND_NOTIFICATION
  /\ IF Truthy(data.id)
     THEN mi' = 1 /\ pc' = "messages" /\ UNCHANGED ai
     ELSE ai' = ai + 1 /\ UNCHANGED <<mi, pc>>
  /\ UNCHANGED <<rules, data, ri, authToken, issued, pending, calls,
                 results, filterVars, runVars>>

\* case RuleActionType.SendNotification: enter the loop over action.params
EnterNotify ==
  /\ pc = "actions"
  /\ ai <= Len(rules[ri].actions)
  /\ rules[ri].actions[ai].type = SEND_NOTIFICATION
  /\ mi' = 1
  /\ pc' = "messages"
  /\ UNCHANGED <<rules, data, ri, ai, authToken, issued, pending, calls,
                 results, filterVars, runVars>>

\* for (const message of action.params): exhausted; break, next action.
EndNotify ==
  /\ pc = "messages"
  /\ mi > Len(rules[ri].actions[ai].params)
  /\ ai' = ai + 1
  /\ pc' = "actions"
  /\ UNCHANGED <<rules, data, ri, mi, authToken, issued, pending, calls,
                 results, filterVars, runVars>>

\* Notify without the await: the loop goes on while the call is outstanding.
NotifyNoAwait ==
  /\ pc = "messages"
  /\ mi <= Len(rules[ri].actions[ai].params)
  /\ Issue(Call("sendNotification", authToken, None, <<>>,
                Some(rules[ri].actions[ai].params[mi])))
  /\ mi' = mi + 1
  /\ UNCHANGED <<rules, data, pc, ri, ai, authToken, issued, results, filterVars,
                 runVars>>

\* Notify walking action.params from the end.
NotifyReversed ==
  /\ pc = "messages"
  /\ mi <= Len(rules[ri].actions[ai].params)
  /\ Issue(Call("sendNotification", authToken, None, <<>>,
                Some(rules[ri].actions[ai].params[
                       Len(rules[ri].actions[ai].params) + 1 - mi])))
  /\ pc' = "awaitNotify"
  /\ UNCHANGED <<rules, data, ri, ai, mi, authToken, issued, results, filterVars, runVars>>

\* await sendNotification(apiEndpoint, authToken, message): the call
Notify ==
  /\ pc = "messages"
  /\ mi <= Len(rules[ri].actions[ai].params)
  /\ Issue(Call("sendNotification", authToken, None, <<>>,
                Some(rules[ri].actions[ai].params[mi])))
  /\ pc' = "awaitNotify"
  /\ UNCHANGED <<rules, data, ri, ai, mi, authToken, issued, results, filterVars, runVars>>

\* NotifyReturn taking the sent message off action.params.
NotifyReturnShifts ==
  /\ pc = "awaitNotify"
  /\ \E ok \in BOOLEAN :
       /\ results' = Append(results, ok)
       /\ IF ok
          THEN /\ rules' = [rules EXCEPT ![ri].actions[ai].params = Tail(@)]
               /\ pc' = "messages"
          ELSE /\ pc' = "failed"
               /\ UNCHANGED rules
  /\ pending' = NoCall
  /\ UNCHANGED <<data, ri, ai, mi, authToken, issued, calls, filterVars, runVars>>

\* ... and its return
NotifyReturn ==
  /\ pc = "awaitNotify"
  /\ \E ok \in BOOLEAN :
       /\ results' = Append(results, ok)
       /\ IF ok
          THEN mi' = mi + 1 /\ pc' = "messages"
          ELSE pc' = "failed" /\ UNCHANGED mi
  /\ pending' = NoCall
  /\ UNCHANGED <<rules, data, ri, ai, authToken, issued, calls, filterVars, runVars>>

\* NoCase with a default case that throws.
NoCaseThrows ==
  /\ pc = "actions"
  /\ ai <= Len(rules[ri].actions)
  /\ rules[ri].actions[ai].type \notin
       {ADD_LABEL, ARCHIVE, MARK_AS_READ, SEND_NOTIFICATION}
  /\ pc' = "failed"
  /\ UNCHANGED <<rules, data, ri, ai, mi, authToken, issued, pending, calls,
                 results, filterVars, runVars>>

\* The switch has no default: a type outside the four cases falls through.
NoCase ==
  /\ pc = "actions"
  /\ ai <= Len(rules[ri].actions)
  /\ rules[ri].actions[ai].type \notin
       {ADD_LABEL, ARCHIVE, MARK_AS_READ, SEND_NOTIFICATION}
  /\ ai' = ai + 1
  /\ UNCHANGED <<rules, data, pc, ri, mi, authToken, issued, pending, calls,
                 results, filterVars, runVars>>

Next ==
  \/ Return
  \/ SkipRule
  \/ GetAuthToken
  \/ GetAuthTokenReturn
  \/ EndRule
  \/ SkipAction
  \/ Dispatch
  \/ DispatchReturn
  \/ EnterNotify
  \/ EndNotify
  \/ Notify
  \/ NotifyReturn
  \/ NoCase

Spec == Init /\ [][Next]_vars

(***************************************************************************)
(* isValidData on its own: the filter and the event are drawn from bounded *)
(* sets and the predicate is evaluated once.                               *)
(***************************************************************************)
\* The removed sequence of the replace: non-word, whitespace, quote, colon.
STRIPPED == <<DASH, " ", QUOTE, COLON>>

Fragments ==
  {KEYWORD, <<COLON>>, STAR, NEWSLETTER, <<" ">>, <<QUOTE>>, <<DASH>>, STRIPPED}

\* Fragments of one filter string.
MaxFragments == 4

FilterStrings ==
  {Flatten(fs) : fs \in UNION {[1..k -> Fragments] : k \in 0..MaxFragments}}

SubscriptionChoices ==
  {None, Some(<<>>), Some(NEWSLETTER), Some(<<"N">>), Some(DIGEST), Some(STAR)}

FilterInit ==
  /\ filter \in FilterStrings
  /\ data \in {PubSubData(id, sub) : id \in {None}, sub \in SubscriptionChoices}
  /\ rules = <<>>
  /\ pc = "filter"
  /\ ri = 0
  /\ ai = 0
  /\ mi = 0
  /\ authToken = 0
  /\ issued = 0
  /\ pending = NoCall
  /\ calls = <<>>
  /\ results = <<>>
  /\ verdict = "none"
  /\ auth = 0
  /\ response = NoResponse

Evaluate ==
  /\ pc = "filter"
  /\ verdict' = isValidData(filter, data)
  /\ pc' = "evaluated"
  /\ UNCHANGED <<rules, data, ri, ai, mi, authToken, issued, pending, calls,
                 results, filter, runVars>>

FilterNext == Evaluate

FilterSpec == FilterInit /\ [][FilterNext]_vars

(***************************************************************************)
(* Properties of the filter predicate (FilterSpec)                         *)
(***************************************************************************)
RECURSIVE StripChars(_)
StripChars(s) ==
  IF s = <<>> THEN <<>>
  ELSE IF Head(s) \in {QUOTE, COLON} \/ IsSpace(Head(s)) THEN StripChars(Tail(s))
  ELSE <<Head(s)>> \o StripChars(Tail(s))

Evaluated == pc = "evaluated"

\* C4: a filter that is empty or `*` once its quote, colon and whitespace
\* characters are taken out is valid for every event, with or without a
\* subscription.
C4_WildcardMatchesAll ==
  (Evaluated /\ StripChars(filter) \in {<<>>, STAR}) => verdict = TRUE

C4_Witness ==
  /\ Evaluated
  /\ StripChars(filter) = STAR
  /\ filter # STAR
  /\ ~Truthy(data.subscription)
  /\ verdict = TRUE

SubscriptionMatch(v) ==
  Truthy(data.subscription) /\ (v = STAR \/ v = data.subscription.v)

\* C5 as stated: whenever the parsed subscriptionFilter is set to a value v,
\* isValidData is true exactly when the event has a non-empty subscription
\* and v is `*` or equals it.
C5_SetFilterDecides ==
  (Evaluated /\ parseSearchFilter(filter).subscriptionFilter.some)
    => verdict = SubscriptionMatch(parseSearchFilter(filter).subscriptionFilter.v)

\* C5 amended: whenever the parsed subscriptionFilter is set to a non-empty
\* value v, isValidData is true exactly when the event has a non-empty
\* subscription and v is `*` or equals it, character for character.
C5_NonEmptyFilterDecides ==
  (Evaluated /\ Truthy(parseSearchFilter(filter).subscriptionFilter))
    => verdict = SubscriptionMatch(parseSearchFilter(filter).subscriptionFilter.v)

C5_Witness ==
  /\ Evaluated
  /\ parseSearchFilter(filter).subscriptionFilter = Some(NEWSLETTER)
  /\ data.subscription = Some(<<"N">>)
  /\ verdict = FALSE

\* The filter, as written, has a term whose keyword is `subscription`.
HasKeywordToken(f) ==
  \E i \in 1..Len(Terms(f)) : TermOffset(Terms(f)[i]).keyword.some

\* The text `subscription:` occurs in the filter as written.
HasKeywordText(f) ==
  \E i \in 1..(Len(f) - Len(KEYWORD)) :
    SubSeq(f, i, i + Len(KEYWORD)) = KEYWORD \o <<COLON>>

\* C6: a filter with no subscription keyword token (only other keywords or
\* free text; here not even the text `subscription:`) is parsed without the
\* subscription filter, so that it is valid for every event.
C6_NoKeywordMatchesAll ==
  (Evaluated /\ ~HasKeywordToken(filter) /\ ~HasKeywordText(filter))
    => verdict = TRUE

(***************************************************************************)
(* Properties of triggerActions (Spec)                                     *)
(***************************************************************************)
\* What a remote call carries, without the token and the place it came from.
Sent(c) == [api |-> c.api, id |-> c.id, labels |-> c.labels, message |-> c.message]

IsActionCall(c) == c.api \notin {"getAuthToken", "graphql"}

ActionCalls == SelectSeq(calls, IsActionCall)

SentActionCalls == [i \in 1..Len(ActionCalls) |-> Sent(ActionCalls[i])]

\* The calls made for action a of rule r.
CallsFor(r, a) == SelectSeq(calls, LAMBDA c : c.rule = r /\ c.action = a)

Matches(r) == isValidData(rules[r].filter, data)

\* The action API calls one action calls for, by the dispatch rules of the
\* four action types.
RECURSIVE Notifications(_)
Notifications(params) ==
  IF params = <<>> THEN <<>>
  ELSE <<[api |-> "sendNotification", id |-> None, labels |-> <<>>,
          message |-> Some(Head(params))]>> \o Notifications(Tail(params))

ExpectedOfAction(action) ==
  IF action.type = ADD_LABEL
  THEN IF Truthy(data.id) /\ action.params # <<>>
       THEN <<[api |-> "addLabels", id |-> data.id, labels |-> action.params,
               message |-> None]>>
       ELSE <<>>
  ELSE IF action.type = ARCHIVE
  THEN IF Truthy(data.id)
       THEN <<[api |-> "archivePage", id |-> data.id, labels |-> <<>>,
               message |-> None]>>
       ELSE <<>>
  ELSE IF action.type = MARK_AS_READ
  THEN IF Truthy(data.id)
       THEN <<[api |-> "markPageAsRead", id |-> data.id, labels |-> <<>>,
               message |-> None]>>
       ELSE <<>>
  ELSE IF action.type = SEND_NOTIFICATION
  THEN Notifications(action.params)
  ELSE <<>>

RECURSIVE ExpectedOfActions(_)
ExpectedOfActions(actions) ==
  IF actions = <<>> THEN <<>>
  ELSE ExpectedOfAction(Head(actions)) \o ExpectedOfActions(Tail(actions))

\* The action API calls of a whole run: rules in list order, the rules the
\* event does not satisfy left out, actions in list order.
RECURSIVE ExpectedOfRules(_)
ExpectedOfRules(rs) ==
  IF rs = <<>> THEN <<>>
  ELSE (IF isValidData(Head(rs).filter, data)
        THEN ExpectedOfActions(Head(rs).actions) ELSE <<>>)
       \o ExpectedOfRules(Tail(rs))

Expected == ExpectedOfRules(rules)

Finished == pc \in {"done", "failed"}

ActionCallFailed ==
  \E i \in 1..Len(results) : ~results[i] /\ IsActionCall(calls[i])

\* C1 as stated: a failing action call is caught, so that a run in which only
\* action calls fail still dispatches every action of every matching rule.
C1_FailureIsolated ==
  (Finished /\ \A i \in 1..Len(results) : ~results[i] => IsActionCall(calls[i]))
    => SentActionCalls = Expected

\* C1 amended: a failing action call is not caught: it ends triggerActions,
\* and no later action of the same rule and no later rule is dispatched, the
\* action calls made being the expected ones up to the failing one.
C1_ActionFailureAborts ==
  \A i \in 1..Len(results) :
    (~results[i] /\ IsActionCall(calls[i]))
      => /\ pc = "failed"
         /\ i = Len(calls)
         /\ Len(ActionCalls) <= Len(Expected)
         /\ SentActionCalls = SubSeq(Expected, 1, Len(ActionCalls))

\* An action call has failed while actions of this rule and of a later rule
\* were still to be dispatched.
C1_Witness ==
  /\ pc = "failed"
  /\ ActionCallFailed
  /\ ri < Len(rules)
  /\ ai < Len(rules[ri].actions)
  /\ Len(Expected) >= Len(ActionCalls) + 2

\* C2: a failing remote call, token issuance or action call, ends
\* triggerActions with the failure, and it is the last remote call made.
C2_FailurePropagates ==
  \A i \in 1..Len(results) :
    ~results[i] => (pc = "failed" /\ i = Len(calls) /\ pending = NoCall)

\* The token issuance of the first rule has failed with further matching
\* rules in the list.
C2_Witness ==
  /\ pc = "failed"
  /\ calls[Len(calls)].api = "getAuthToken"
  /\ ri < Len(rules)
  /\ Matches(ri + 1)
  /\ rules[ri + 1].actions # <<>>

\* C3: a run in which no call fails makes the action calls in rule order and,
\* within a rule, in action order, a notification's messages in params
\* order and add-label as one call with all the params.
C3_DispatchOrder == pc = "done" => SentActionCalls = Expected

\* The example: [AddLabel([x]), Archive, SendNotification([hi, bye])].
C3_Witness ==
  /\ pc = "done"
  /\ rules = <<Rule(STAR, <<RuleAction(ADD_LABEL, <<X>>), RuleAction(ARCHIVE, <<>>),
                            RuleAction(SEND_NOTIFICATION, <<HI, BYE>>)>>)>>
  /\ data.id = Some(P1)
  /\ SentActionCalls =
       << [api |-> "addLabels", id |-> Some(P1), labels |-> <<X>>, message |-> None],
          [api |-> "archivePage", id |-> Some(P1), labels |-> <<>>, message |-> None],
          [api |-> "sendNotification", id |-> None, labels |-> <<>>,
           message |-> Some(HI)],
          [api |-> "sendNotification", id |-> None, labels |-> <<>>,
           message |-> Some(BYE)] >>

\* C7: add-label is never called for an AddLabel action with empty params,
\* and never when the event has no id.
C7_AddLabelPrecondition ==
  \A i \in 1..Len(calls) :
    calls[i].api = "addLabels"
      => /\ rules[calls[i].rule].actions[calls[i].action].type = ADD_LABEL
         /\ rules[calls[i].rule].actions[calls[i].action].params # <<>>
         /\ Truthy(data.id)

\* A run with an event id has passed an AddLabel action with empty params of a
\* matching rule and made the call of the action after it.
C7_Witness ==
  /\ pc = "done"
  /\ Truthy(data.id)
  /\ \E r \in 1..Len(rules) : \E a \in 1..Len(rules[r].actions) :
       /\ Matches(r)
       /\ rules[r].actions[a] = RuleAction(ADD_LABEL, <<>>)
       /\ CallsFor(r, a) = <<>>
       /\ CallsFor(r, a + 1) # <<>>

\* The precondition an AddLabel, Archive or MarkAsRead action is skipped for.
Skippable(action) ==
  \/ action.type \in {ADD_LABEL, ARCHIVE, MARK_AS_READ} /\ ~Truthy(data.id)
  \/ action.type = ADD_LABEL /\ action.params = <<>>

AtSkippable ==
  /\ pc = "actions"
  /\ ai <= Len(rules[ri].actions)
  /\ Skippable(rules[ri].actions[ai])

\* C8: at an action that is skipped for a missing id or empty params the step
\* makes no remote call and moves to the next action of the same rule, and
\* triggerActions fails only when a remote call has failed.
C8_SkipContinues ==
  /\ [][AtSkippable => /\ calls' = calls
                       /\ pending' = NoCall
                       /\ pc' = "actions"
                       /\ ri' = ri
                       /\ ai' = ai + 1]_vars
  /\ [](pc = "failed" => (results # <<>> /\ ~results[Len(results)]))

\* An action was skipped, the action after it was dispatched and so was a
\* later rule.
C8_Witness ==
  \E r \in 1..Len(rules) : \E a \in 1..Len(rules[r].actions) :
    /\ Matches(r)
    /\ Skippable(rules[r].actions[a])
    /\ CallsFor(r, a) = <<>>
    /\ CallsFor(r, a + 1) # <<>>
    /\ \E i \in 1..Len(calls) : calls[i].rule > r

\* C9: for a SendNotification action of a matching rule a run that completes
\* has called the notification API once per entry of params, in order, with
\* the entry as the message, whether or not the event has an id.
C9_NotificationPerParam ==
  pc = "done" =>
    \A r \in 1..Len(rules) : \A a \in 1..Len(rules[r].actions) :
      (Matches(r) /\ rules[r].actions[a].type = SEND_NOTIFICATION)
        => /\ Len(CallsFor(r, a)) = Len(rules[r].actions[a].params)
           /\ \A i \in 1..Len(CallsFor(r, a)) :
                /\ CallsFor(r, a)[i].api = "sendNotification"
                /\ CallsFor(r, a)[i].message = Some(rules[r].actions[a].params[i])

\* Two notifications sent for an event without id, and an action with empty
\* params that sent none.
C9_Witness ==
  /\ pc = "done"
  /\ ~Truthy(data.id)
  /\ \E r \in 1..Len(rules) : \E a \in 1..Len(rules[r].actions) :
       /\ Matches(r)
       /\ rules[r].actions[a] = RuleAction(SEND_NOTIFICATION, <<HI, BYE>>)
       /\ Len(CallsFor(r, a)) = 2
  /\ \E r \in 1..Len(rules) : \E a \in 1..Len(rules[r].actions) :
       /\ Matches(r)
       /\ rules[r].actions[a] = RuleAction(SEND_NOTIFICATION, <<>>)

\* The example: R1 (`*`, MarkAsRead), R2 (`subscription:d`, Archive) and the
\* event {id: p1, subscription: n}.
ExampleRules ==
  << Rule(STAR, <<RuleAction(MARK_AS_READ, <<>>)>>),
     Rule(KEYWORD \o <<COLON>> \o DIGEST, <<RuleAction(ARCHIVE, <<>>)>>) >>

ExampleData == PubSubData(Some(P1), Some(NEWSLETTER))

\* C10: no remote call, token fetch or action call, is made for a rule the
\* event does not satisfy, and the rules after it are still evaluated: a
\* completed run has fetched a token for every rule the event satisfies.  In
\* the example exactly one mark-as-read call on p1 is made and no archive call.
C10_UnmatchedRuleSilent ==
  /\ \A i \in 1..Len(calls) : Matches(calls[i].rule)
  /\ pc = "done" =>
       \A r \in 1..Len(rules) :
         Matches(r) => \E i \in 1..Len(calls) :
                         calls[i].rule = r /\ calls[i].api = "getAuthToken"
  /\ (pc = "done" /\ rules = ExampleRules /\ data = ExampleData)
       => SentActionCalls =
            <<[api |-> "markPageAsRead", id |-> Some(P1), labels |-> <<>>,
               message |-> None]>>

\* A rule the event does not satisfy was passed over and the rule after it
\* dispatched.
C10_Witness ==
  /\ pc = "done"
  /\ Len(rules) = 2
  /\ ~Matches(1)
  /\ rules[1].actions # <<>>
  /\ Matches(2)
  /\ Len(ActionCalls) = 1
  /\ ActionCalls[1].rule = 2

(***************************************************************************)
(* A full run: getEnabledRules, then triggerActions on the rules it        *)
(* returned.                                                               *)
(***************************************************************************)
\* Rules plus actions of one Rule Store answer.
MaxRunSize == 3

\* What the Rule Store can answer: the RulesSuccess variant with its rules,
\* the RulesError variant (errorCodes, no rules member), or a body whose
\* data member is null.
Response(kind, rs) == [kind |-> kind, rules |-> rs]

Responses ==
  {Response("RulesSuccess", rs) : rs \in RuleLists(MaxRunSize)}
    \cup {Response("RulesError", <<>>), Response("NoData", <<>>)}

RunInit ==
  /\ data \in DataChoices
  /\ rules = <<>>
  /\ pc = "getEnabledRules"
  /\ ri = 0
  /\ ai = 0
  /\ mi = 0
  /\ authToken = 0
  /\ issued = 0
  /\ pending = NoCall
  /\ calls = <<>>
  /\ results = <<>>
  /\ filter = <<>>
  /\ verdict = "none"
  /\ auth = 0
  /\ response = NoResponse

\* const auth = await getAuthToken(userId, jwtSecret): the call
GetRulesToken ==
  /\ pc = "getEnabledRules"
  /\ Issue(Call("getAuthToken", 0, None, <<>>, None))
  /\ pc' = "awaitAuth"
  /\ UNCHANGED <<rules, data, ri, ai, mi, authToken, issued, results, filterVars,
                 runVars>>

\* ... and its return
GetRulesTokenReturn ==
  /\ pc = "awaitAuth"
  /\ \E ok \in BOOLEAN :
       /\ results' = Append(results, ok)
       /\ IF ok
          THEN /\ issued' = issued + 1
               /\ auth' = issued + 1
               /\ pc' = "query"
          ELSE /\ pc' = "failed"
               /\ UNCHANGED <<issued, auth>>
  /\ pending' = NoCall
  /\ UNCHANGED <<rules, data, ri, ai, mi, authToken, calls, filterVars, response>>

\* const response = await axios.post(`${apiEndpoint}/graphql`, ...): the call
QueryRules ==
  /\ pc = "query"
  /\ Issue(Call("graphql", auth, None, <<>>, None))
  /\ pc' = "awaitRules"
  /\ UNCHANGED <<rules, data, ri, ai, mi, authToken, issued, results, filterVars,
                 runVars>>

\* ... and its return: a response, or a rejection
QueryRulesReturn ==
  /\ pc = "awaitRules"
  /\ \/ \E r \in Responses :
          /\ results' = Append(results, TRUE)
          /\ response' = r
          /\ pc' = "response"
     \/ /\ results' = Append(results, FALSE)
        /\ pc' = "failed"
        /\ UNCHANGED response
  /\ pending' = NoCall
  /\ UNCHANGED <<rules, data, ri, ai, mi, authToken, issued, calls, filterVars, auth>>

\* ReturnRules with `?? []` behind the member access.
ReturnRulesOrEmpty ==
  /\ pc = "response"
  /\ IF response.kind = "NoData"
     THEN pc' = "failed" /\ UNCHANGED rules
     ELSE rules' = response.rules /\ pc' = "returned"
  /\ UNCHANGED <<data, ri, ai, mi, authToken, issued, pending, calls, results,
                 filterVars, runVars>>

\* return response.data.data.rules.rules as Rule[]: a TypeError when data is
\* null, undefined when the rules member has no rules (RulesError).
ReturnRules ==
  /\ pc = "response"
  /\ IF response.kind = "NoData"
     THEN pc' = "failed" /\ UNCHANGED rules
     ELSE IF response.kind = "RulesError"
     THEN pc' = "returnedUndefined" /\ UNCHANGED rules
     ELSE rules' = response.rules /\ pc' = "returned"
  /\ UNCHANGED <<data, ri, ai, mi, authToken, issued, pending, calls, results,
                 filterVars, runVars>>

\* The orchestrator hands the rules to triggerActions.
TriggerActions ==
  /\ pc = "returned"
  /\ pc' = "rules"
  /\ ri' = 1
  /\ UNCHANGED <<rules, data, ai, mi, authToken, issued, pending, calls, results,
                 filterVars, runVars>>

\* for (const rule of rules) with rules undefined: a TypeError.
NotIterable ==
  /\ pc = "returnedUndefined"
  /\ pc' = "failed"
  /\ UNCHANGED <<rules, data, ri, ai, mi, authToken, issued, pending, calls,
                 results, filterVars, runVars>>

RunNext ==
  \/ GetRulesToken
  \/ GetRulesTokenReturn
  \/ QueryRules
  \/ QueryRulesReturn
  \/ ReturnRules
  \/ TriggerActions
  \/ NotIterable
  \/ Next

RunSpec == RunInit /\ [][RunNext]_vars

(***************************************************************************)
(* Properties of a full run (RunSpec)                                      *)
(***************************************************************************)
IsTokenFetch(c) == c.api = "getAuthToken"

TokenFetches == SelectSeq(calls, IsTokenFetch)

MatchingRules == {r \in 1..Len(rules) : Matches(r)}

\* C11: a full run in which no call fails fetches one token before the Rule
\* Store query and then one per matching rule, before any call for an action
\* of that rule: 1 + (number of matching rules) fetches in all, and the calls
\* of two different rules never carry the same token.
C11_TokenPerMatchedRule ==
  pc = "done" =>
    /\ Len(calls) >= 2
    /\ IsTokenFetch(calls[1]) /\ calls[1].rule = 0
    /\ calls[2].api = "graphql"
    /\ Len(TokenFetches) = 1 + Cardinality(MatchingRules)
    /\ \A r \in MatchingRules :
         \E i \in 3..Len(calls) :
           /\ IsTokenFetch(calls[i]) /\ calls[i].rule = r
           /\ \A j \in 1..Len(calls) :
                (j # i /\ calls[j].rule = r) => (j > i /\ ~IsTokenFetch(calls[j]))
    /\ \A i, j \in 3..Len(calls) :
         (~IsTokenFetch(calls[i]) /\ ~IsTokenFetch(calls[j])
            /\ calls[i].rule # calls[j].rule) => calls[i].token # calls[j].token

\* Two matching rules, the first one with an action call: three fetches.
C11_Witness ==
  /\ pc = "done"
  /\ Cardinality(MatchingRules) = 2
  /\ Len(TokenFetches) = 3
  /\ ActionCalls # <<>>

BadResponse == response.kind \in {"RulesError", "NoData"}

\* C12: once the Rule Store has answered with the RulesError variant or with
\* a body without data, the run is on its way to a failure or has failed: it
\* never enters the rule loop, makes no remote call after the query and no
\* action API call at all; and the step after getEnabledRules has returned
\* undefined is the failure.
C12_BadResponseFails ==
  /\ [](BadResponse =>
          /\ pc \in {"response", "returnedUndefined", "failed"}
          /\ Len(calls) = 2
          /\ ActionCalls = <<>>)
  /\ [][(BadResponse /\ pc \in {"response", "returnedUndefined"})
          => pc' \in {"returnedUndefined", "failed"}]_vars
  /\ [][pc = "returnedUndefined" => pc' = "failed"]_vars

C12_Witness ==
  /\ pc = "failed"
  /\ response.kind = "RulesError"
  /\ results = <<TRUE, TRUE>>

(***************************************************************************)
(* Sequential execution                                                    *)
(***************************************************************************)

\* The number of remote calls that have been issued and have not returned.
Outstanding == Len(calls) - Len(results)

\* C13: at every point of a triggerActions run at most one remote call (token
\* fetch or action API call) is outstanding, and a call is started only when
\* every call before it has returned, so no two actions run concurrently.
C13_OneCallAtATime ==
  /\ [](/\ Outstanding \in {0, 1}
        /\ (Outstanding = 1) <=> (pending # NoCall)
        /\ Outstanding = 1 => pending = calls[Len(calls)])
  /\ [][calls' # calls =>
          /\ Outstanding = 0
          /\ pending = NoCall
          /\ Len(calls') = Len(calls) + 1]_vars

\* A third call is outstanding after a token fetch and an action call returned.
C13_Witness ==
  /\ Len(calls) = 3
  /\ Len(results) = 2
  /\ IsActionCall(calls[2])
  /\ IsActionCall(calls[3])
  /\ pending = calls[3]

(***************************************************************************)
(* isValidData on filters made of whole terms (TermSpec): keyword terms,   *)
(* plain, negated, quoted, empty; free text; and the two terms that put    *)
(* the sequence the replace removes into the filter.                       *)
(***************************************************************************)
TermChoices ==
  {KEYWORD \o <<COLON>> \o NEWSLETTER,
   KEYWORD \o <<COLON>> \o DIGEST,
   KEYWORD \o <<COLON>>,
   <<DASH>> \o KEYWORD \o <<COLON>> \o NEWSLETTER,
   KEYWORD \o <<COLON, QUOTE>> \o DIGEST \o <<QUOTE>>,
   NEWSLETTER,
   KEYWORD \o <<COLON>> \o DIGEST \o <<DASH>>,
   <<QUOTE, COLON>> \o X}

\* Terms of one filter string.
MaxTerms == 3

RECURSIVE JoinTerms(_)
JoinTerms(ts) ==
  IF ts = <<>> THEN <<>>
  ELSE IF Len(ts) = 1 THEN ts[1]
  ELSE ts[1] \o <<" ">> \o JoinTerms(Tail(ts))

TermStrings ==
  {JoinTerms(ts) : ts \in UNION {[1..k -> TermChoices] : k \in 0..MaxTerms}}

TermData ==
  {PubSubData(None, sub) : sub \in {None, Some(NEWSLETTER), Some(DIGEST)}}

TermInit ==
  /\ filter \in TermStrings
  /\ data \in TermData
  /\ rules = <<>>
  /\ pc = "filter"
  /\ ri = 0
  /\ ai = 0
  /\ mi = 0
  /\ authToken = 0
  /\ issued = 0
  /\ pending = NoCall
  /\ calls = <<>>
  /\ results = <<>>
  /\ verdict = "none"
  /\ auth = 0
  /\ response = NoResponse

TermNext == Evaluate

TermSpec == TermInit /\ [][TermNext]_vars

\* The terms of f whose keyword is `subscription`, in the order of the text.
KeywordTerms(f) == SelectSeq(Terms(f), LAMBDA t : TermOffset(t).keyword.some)

\* The value of the last of them.
LastOccurrence(f) == TermOffset(KeywordTerms(f)[Len(KeywordTerms(f))]).value

\* C14 as stated: when a filter contains the `subscription` keyword more than
\* once, parseSearchFilter sets subscriptionFilter to the value of the last
\* occurrence, and isValidData matches the event against that value only.
C14_LastOccurrenceDecides ==
  (Evaluated /\ Len(KeywordTerms(filter)) >= 2) =>
    /\ parseSearchFilter(filter).subscriptionFilter = Some(LastOccurrence(filter))
    /\ verdict = SubscriptionMatch(LastOccurrence(filter))

\* C14 amended: when the filter, after the replacement of line 37, contains
\* the `subscription` keyword more than once, parseSearchFilter sets
\* subscriptionFilter to the value of the last occurrence in that text;
\* isValidData matches the event against that value only when it is not
\* empty, and is true for every event when it is empty.
C14_LastNonEmptyOccurrenceDecides ==
  (Evaluated /\ Len(KeywordTerms(ReplaceStrip(filter))) >= 2) =>
    /\ parseSearchFilter(filter).subscriptionFilter
         = Some(LastOccurrence(ReplaceStrip(filter)))
    /\ verdict = IF LastOccurrence(ReplaceStrip(filter)) = <<>> THEN TRUE
                 ELSE SubscriptionMatch(LastOccurrence(ReplaceStrip(filter)))

\* `subscription:n ... subscription:d` and an event of subscription n: the
\* first value would match, the last one decides.
C14_Witness ==
  /\ Evaluated
  /\ Len(KeywordTerms(ReplaceStrip(filter))) >= 2
  /\ TermOffset(KeywordTerms(ReplaceStrip(filter))[1]).value = NEWSLETTER
  /\ LastOccurrence(ReplaceStrip(filter)) = DIGEST
  /\ data.subscription = Some(NEWSLETTER)
  /\ verdict = FALSE

(***************************************************************************)
(* Empty actions lists, frame, tokens, unknown types                       *)
(***************************************************************************)

\* The action API calls made for rule r.
ActionCallsOfRule(r) ==
  SelectSeq(calls, LAMBDA c : IsActionCall(c) /\ c.rule = r)

\* The matching rules with an empty actions list.
EmptyMatchingRules ==
  {r \in 1..Len(rules) : Matches(r) /\ rules[r].actions = <<>>}

\* C15: a matching rule whose actions list is empty is a no-op and not an
\* error: no action API call is made for it, the step that finds its list
\* exhausted goes on to the next rule without a call or a failure,
\* triggerActions fails only when a remote call was rejected, and in a run
\* that completes every rule after it has had its calls made.
C15_EmptyActionsNoOp ==
  /\ [](/\ \A r \in 1..Len(rules) :
             rules[r].actions = <<>> => ActionCallsOfRule(r) = <<>>
        /\ pc = "failed" => results # <<>> /\ results[Len(results)] = FALSE
        /\ (pc = "done" /\ EmptyMatchingRules # {}) =>
             \A r \in 1..Len(rules) :
               Len(ActionCallsOfRule(r)) =
                 IF Matches(r) THEN Len(ExpectedOfActions(rules[r].actions))
                 ELSE 0)
  /\ [][(pc = "actions" /\ rules[ri].actions = <<>>) =>
          /\ pc' = "rules"
          /\ ri' = ri + 1
          /\ calls' = calls
          /\ results' = results]_vars

\* A completed run with an empty matching rule and calls for a later rule.
C15_Witness ==
  /\ pc = "done"
  /\ \E r \in EmptyMatchingRules :
       \E q \in (r + 1)..Len(rules) : ActionCallsOfRule(q) # <<>>

\* C16: triggerActions mutates no local state: no step of a run, completed or
\* aborted by a failure, changes the rules list (filters, actions, params) or
\* the event data; a step changes the log of remote calls or the position in
\* the loops only.
C16_NoLocalMutation == [][rules' = rules /\ data' = data]_vars

\* A run aborted by a failure after two action calls were made.
C16_Witness ==
  /\ pc = "failed"
  /\ Len(ActionCalls) >= 2
  /\ \E r \in 1..Len(rules) : rules[r].actions # <<>>
  /\ Truthy(data.id)

\* The position of the last token fetch issued before call i.
FetchBefore(i) ==
  CHOOSE j \in 1..(i - 1) :
    /\ IsTokenFetch(calls[j])
    /\ \A k \in (j + 1)..(i - 1) : ~IsTokenFetch(calls[k])

\* The token the fetch at position j returned: the issuer numbers its tokens.
TokenOfFetch(j) == Cardinality({k \in 1..j : IsTokenFetch(calls[k])})

\* C17: every action API call carries the token returned by the most recent
\* token fetch, which is the fetch made for the rule that owns the action; it
\* carries neither the token of the Rule Store query nor the token of an
\* action call of another rule.
C17_CallCarriesRuleToken ==
  \A i \in 1..Len(calls) :
    IsActionCall(calls[i]) =>
      /\ \E j \in 1..(i - 1) : IsTokenFetch(calls[j])
      /\ calls[FetchBefore(i)].rule = calls[i].rule
      /\ results[FetchBefore(i)] = TRUE
      /\ calls[i].token = TokenOfFetch(FetchBefore(i))
      /\ calls[i].token # auth
      /\ \A k \in 1..(i - 1) :
           (IsActionCall(calls[k]) /\ calls[k].rule # calls[i].rule)
             => calls[k].token # calls[i].token

\* The query used the first token, rule 1 fetched the second, and an action
\* of rule 2 is called with the third.
C17_Witness ==
  /\ Len(calls) >= 5
  /\ calls[2].api = "graphql"
  /\ calls[2].token = 1
  /\ IsTokenFetch(calls[3])
  /\ calls[3].rule = 1
  /\ IsTokenFetch(calls[4])
  /\ calls[4].rule = 2
  /\ IsActionCall(calls[5])
  /\ calls[5].token = 3

KnownTypes == {ADD_LABEL, ARCHIVE, MARK_AS_READ, SEND_NOTIFICATION}

\* The actions whose type is none of the four, as <<rule, action>> positions.
UnknownActions ==
  UNION {{<<r, a>> : a \in {k \in 1..Len(rules[r].actions) :
                              rules[r].actions[k].type \notin KnownTypes}} :
         r \in 1..Len(rules)}

\* C18: an action whose type is none of AddLabel, Archive, MarkAsRead,
\* SendNotification is silently ignored: no remote call is made for it, the
\* step that meets it goes on to the next action of the rule without a call
\* or a failure, and in a run that completes every other action of every
\* matching rule has had its calls made.
C18_UnknownTypeIgnored ==
  /\ [](/\ \A ra \in UnknownActions : CallsFor(ra[1], ra[2]) = <<>>
        /\ (pc = "done" /\ UnknownActions # {}) =>
             \A r \in 1..Len(rules) :
               IF Matches(r)
               THEN \A a \in 1..Len(rules[r].actions) :
                      Len(CallsFor(r, a)) = Len(ExpectedOfAction(rules[r].actions[a]))
               ELSE ActionCallsOfRule(r) = <<>>)
  /\ [][(/\ pc = "actions"
         /\ ai <= Len(rules[ri].actions)
         /\ rules[ri].actions[ai].type \notin KnownTypes) =>
          /\ pc' = "actions"
          /\ ri' = ri
          /\ ai' = ai + 1
          /\ calls' = calls
          /\ results' = results]_vars

\* A completed run in which an action of an unknown type was followed by a
\* dispatched action of the same rule and by the token fetch of a later rule.
C18_Witness ==
  /\ pc = "done"
  /\ \E ra \in UnknownActions :
       /\ \E a \in (ra[2] + 1)..Len(rules[ra[1]].actions) :
            CallsFor(ra[1], a) # <<>>
       /\ \E r \in (ra[1] + 1)..Len(rules) : CallsFor(r, 0) # <<>>
       /\ Matches(ra[1])

(***************************************************************************)
(* Termination (LiveSpec): triggerActions under the assumption that every  *)
(* remote call returns and that the function, when it can take a step,     *)
(* takes it.                                                               *)
(***************************************************************************)
\* Rules and actions of one run of LiveSpec.
MaxLiveSize == 3

LiveInit ==
  /\ rules \in RuleLists(MaxLiveSize)
  /\ data \in DataChoices
  /\ pc = "rules"
  /\ ri = 1
  /\ ai = 0
  /\ mi = 0
  /\ authToken = 0
  /\ issued = 0
  /\ pending = NoCall
  /\ calls = <<>>
  /\ results = <<>>
  /\ filter = <<>>
  /\ verdict = "none"
  /\ auth = 0
  /\ response = NoResponse

\* The step at the head of the rule loop, whichever way the test of the
\* filter goes: the rule is skipped or its token is requested.
RuleStep ==
  /\ pc = "rules"
  /\ ri <= Len(rules)
  /\ \/ /\ ri' = ri + 1
        /\ UNCHANGED <<pc, pending, calls>>
     \/ /\ Issue([Call("getAuthToken", 0, None, <<>>, None) EXCEPT !.action = 0])
        /\ pc' = "awaitToken"
        /\ UNCHANGED ri
  /\ UNCHANGED <<rules, data, ai, mi, authToken, issued, results, filterVars,
                 runVars>>

\* Every step of triggerActions: the steps of Next, those of the head of the
\* rule loop taken without regard to the filter.
Step ==
  \/ RuleStep
  \/ Return
  \/ GetAuthTokenReturn
  \/ EndRule
  \/ SkipAction
  \/ Dispatch
  \/ DispatchReturn
  \/ EnterNotify
  \/ EndNotify
  \/ Notify
  \/ NotifyReturn
  \/ NoCase

\* The function takes a step whenever it can, and every remote call returns.
\* A step of Next is a step of Step, and one is possible exactly when the
\* other is, so that this is weak fairness of Next.
LiveSpec == LiveInit /\ [][Next]_vars /\ WF_vars(Step)

\* The most calls one action may cause.
CallBudget(action) ==
  IF action.type = SEND_NOTIFICATION THEN Len(action.params) ELSE 1

\* C19: for every finite list of rules, if every remote call eventually
\* returns, triggerActions eventually finishes (returns or fails); at most
\* one token fetch is issued per rule and at most one action API call per
\* action (one per params entry for SendNotification, the k-th call carrying
\* the k-th entry), and a call that was rejected is followed by no call.
C19_TerminatesWithoutRetry ==
  /\ <>Finished
  /\ [](/\ \A r \in 1..Len(rules) :
             /\ Len(CallsFor(r, 0)) <= 1
             /\ \A a \in 1..Len(rules[r].actions) :
                  /\ Len(CallsFor(r, a)) <= CallBudget(rules[r].actions[a])
                  /\ rules[r].actions[a].type = SEND_NOTIFICATION =>
                       \A k \in 1..Len(CallsFor(r, a)) :
                         CallsFor(r, a)[k].message
                           = Some(rules[r].actions[a].params[k])
        /\ \A i \in 1..Len(results) : results[i] = FALSE => Len(calls) = i)

\* The second notification of an action was rejected and nothing was called
\* after it.
C19_Witness ==
  /\ pc = "failed"
  /\ Len(CallsFor(1, 1)) = 2
  /\ results = <<TRUE, TRUE, FALSE>>
  /\ Len(calls) = 3

====
